---- MODULE Spec2Model ----
(***************************************************************************)
(* State-machine model of the AI-Health service: the HTTP handlers of      *)
(* app/main.py and app/routes/s3_routes.py and the adapters of             *)
(* app/modules (care_plan.py, file_upload.py).  Every action is one        *)
(* request handled from start to finish; the answers of the backend        *)
(* services (object storage, model inference, entity recognition) are      *)
(* inputs drawn from small sets.                                           *)
(***************************************************************************)
EXTENDS Integers, Sequences, FiniteSets, TLC

VARIABLES op, req, answer, resp, calls, objects, now, uploads

vars == <<op, req, answer, resp, calls, objects, now, uploads>>

(***************************************************************************)
(* Bounds of the model.                                                    *)
(***************************************************************************)
MaxIdLen == 2        \* tokens in a model identifier
MaxMeds == 1         \* medications in a prescription
MaxBadFields == 1    \* missing / ill-typed fields in a completion object
MaxUploads == 2      \* uploads accepted by storage in one run
MaxClock == 1        \* seconds the clock may advance
MaxLines == 2        \* lines of an extracted document
MaxEntities == 2     \* PHI entities returned by entity recognition
MaxModels == 2       \* model summaries returned by the listing call
MaxBlocks == 2       \* blocks in a reply of the OCR service
MaxNerEntities == 1  \* entities in a reply of the entity-recognition service
MaxRuns == 2         \* runs of characters in a text given to entity recognition

Range(s) == {s[i] : i \in 1..Len(s)}

SeqsUpTo(S, n) == UNION {[1..k -> S] : k \in 0..n}

(***************************************************************************)
(* Model identifiers.  An identifier is a string; the code only asks       *)
(* whether it contains a family marker, so an identifier is modelled as    *)
(* the sequence of its tokens and `in` as membership of the marker.        *)
(***************************************************************************)
Tokens == {"anthropic.claude", "amazon.titan", "amazon.nova", "meta.llama"}

ModelIds == SeqsUpTo(Tokens, MaxIdLen) \ {<<>>}

Contains(model_id, marker) == marker \in Range(model_id)

\* settings.bedrock_model_id = "us.anthropic.claude-sonnet-4-5-20250929-v1:0"
bedrock_model_id == <<"anthropic.claude">>

(***************************************************************************)
(* Prescriptions (DoctorPrescription): the fields the adapter reads.       *)
(***************************************************************************)
Diagnoses == {"bronchitis", "hypertension"}

Prescriptions == [diagnosis : Diagnoses, nmeds : 0..MaxMeds]

(***************************************************************************)
(* CarePlan record shape and the completions a model may return.           *)
(***************************************************************************)
RequiredFields == {"patient_summary", "care_goals", "medication_management",
                   "lifestyle_recommendations", "monitoring_schedule",
                   "warning_signs", "follow_up_recommendations"}

CarePlanFields == RequiredFields \cup {"generated_at"}

SubsetsUpTo(S, n) == {T \in SUBSET S : Cardinality(T) <= n}

\* kind: "not_json" (text that is no JSON), "empty" (the empty string),
\* "array" / "scalar" (JSON that is no object), "object" (a JSON object in
\* which the fields of `missing` are absent and those of `wrong` ill-typed;
\* at most MaxBadFields fields are one or the other).
ObjectCompletions ==
    UNION {[kind : {"object"}, missing : {m},
            wrong : SubsetsUpTo(RequiredFields \ m, MaxBadFields - Cardinality(m))] :
              m \in SubsetsUpTo(CarePlanFields, MaxBadFields)}

Completions ==
    [kind : {"not_json", "empty", "array", "scalar"}, missing : {{}}, wrong : {{}}]
    \cup ObjectCompletions

EmptyCompletion == [kind |-> "empty", missing |-> {}, wrong |-> {}]

\* json.loads(content.strip()) succeeds
JsonLoads(content) == content.kind \in {"array", "scalar", "object"}

\* CarePlan(**care_plan_data) succeeds
CarePlanValidates(data) ==
    /\ data.kind = "object"
    /\ data.missing \cap RequiredFields = {}
    /\ data.wrong = {}

(***************************************************************************)
(* BedrockCarePlanGenerator.generate_care_plan                             *)
(***************************************************************************)
\* the request body built for the model (its family and its top-level keys)
RequestBody(model_id) ==
    IF Contains(model_id, "anthropic.claude")
    THEN [family |-> "claude",
          keys |-> {"anthropic_version", "max_tokens", "messages", "temperature", "top_p"}]
    ELSE IF Contains(model_id, "amazon.titan")
    THEN [family |-> "titan", keys |-> {"inputText", "textGenerationConfig"}]
    ELSE IF Contains(model_id, "amazon.nova")
    THEN [family |-> "nova", keys |-> {"messages", "inferenceConfig"}]
    ELSE [family |-> "default",
          keys |-> {"anthropic_version", "max_tokens", "messages", "temperature"}]

\* the family whose response layout is used to read the reply
ResponseFamilySwapped(model_id) ==
    IF Contains(model_id, "amazon.titan") THEN "titan"
    ELSE IF Contains(model_id, "anthropic.claude") THEN "claude"
    ELSE IF Contains(model_id, "amazon.nova") THEN "nova"
    ELSE "default"

ResponseFamily(model_id) ==
    IF Contains(model_id, "anthropic.claude") THEN "claude"
    ELSE IF Contains(model_id, "amazon.titan") THEN "titan"
    ELSE IF Contains(model_id, "amazon.nova") THEN "nova"
    ELSE "default"

\* Reply bodies of invoke_model.  shape: the layout of the JSON body
\* ("claude": content[0].text, "titan": results[0].outputText, "nova":
\* output.message.content[0].text, "other": a JSON object with none of
\* these, "notjson": a body json.loads rejects); completion: the text.
BodyShapes == {"claude", "titan", "nova", "other", "notjson"}

ResponseBodies == [shape : BodyShapes, completion : Completions]

\* content = response_body[...]: ok is FALSE when the lookup raises
ExtractContent(model_id, response_body) ==
    LET family == ResponseFamily(model_id) IN
    IF family = "default"
    THEN [ok |-> TRUE, family |-> family,
          content |-> IF response_body.shape = "claude"
                      THEN response_body.completion ELSE EmptyCompletion]
    ELSE [ok |-> response_body.shape = family, family |-> family,
          content |-> response_body.completion]

NoPlan == [source |-> "none", summary |-> "none", nmeds |-> 0]

\* _create_fallback_care_plan: the summary names the diagnosis, the
\* medication section the number of prescribed medications
CreateFallbackCarePlan(prescription) ==
    [source |-> "fallback", summary |-> prescription.diagnosis,
     nmeds |-> prescription.nmeds]

\* the plan read from the completion
ParsedCarePlan(content) == [source |-> "model", summary |-> "completion", nmeds |-> 0]

InvokeErrors == {"AccessDeniedException", "ValidationException",
                 "ThrottlingException", "ConnectionError"}

\* ClientError codes; ConnectionError stands for any other exception
ClientErrorCodes == InvokeErrors \ {"ConnectionError"}

Raised(msg, cs, family) ==
    [outcome |-> "raise", plan |-> NoPlan, error |-> msg, calls |-> cs,
     extracted |-> family]

Returned(plan, cs, family) ==
    [outcome |-> "return", plan |-> plan, error |-> "none", calls |-> cs,
     extracted |-> family]

\* the inner try block: json.loads, CarePlan(**data), except JSONDecodeError
ParseCompletion(prescription, content, cs, family) ==
    IF ~JsonLoads(content)
    THEN Returned(CreateFallbackCarePlan(prescription), cs, family)
    ELSE IF CarePlanValidates(content)
    THEN Returned(ParsedCarePlan(content), cs, family)
    ELSE Raised("Unexpected error in care plan generation", cs, family)

InvokeCall(model_id) ==
    [api |-> "invoke_model", modelId |-> model_id, body |-> RequestBody(model_id)]

\* the calls made to the inference client for a given backend answer
InvokeCallsRetrying(model_id, backend) ==
    IF backend.error = "none" THEN <<InvokeCall(model_id)>>
    ELSE <<InvokeCall(model_id), InvokeCall(bedrock_model_id)>>

InvokeCalls(model_id, backend) == <<InvokeCall(model_id)>>

\* the except ClientError handler (lines 334-361)
ClientErrorMessage(code) ==
    IF code = "AccessDeniedException" THEN "Access denied to Amazon Bedrock"
    ELSE IF code = "ValidationException" THEN "Invalid request to Bedrock"
    ELSE "Bedrock error"

GenerateCarePlanSwallowing(prescription, model_id, backend) ==
    LET cs == InvokeCalls(model_id, backend)
        ex == ExtractContent(model_id, backend.body)
    IN  IF backend.error # "none"
        THEN Returned(CreateFallbackCarePlan(prescription), cs, "none")
        ELSE IF backend.body.shape = "notjson"
        THEN Raised("Unexpected error in care plan generation", cs, "none")
        ELSE IF ~ex.ok
        THEN Raised("Unexpected error in care plan generation", cs, ex.family)
        ELSE ParseCompletion(prescription, ex.content, cs, ex.family)

GenerateCarePlan(prescription, model_id, backend) ==
    LET cs == InvokeCalls(model_id, backend)
        ex == ExtractContent(model_id, backend.body)
    IN  IF backend.error \in ClientErrorCodes
        THEN Raised(ClientErrorMessage(backend.error), cs, "none")
        ELSE IF backend.error # "none"
        THEN Raised("Unexpected error in care plan generation", cs, "none")
        ELSE IF backend.body.shape = "notjson"
        THEN Raised("Unexpected error in care plan generation", cs, "none")
        ELSE IF ~ex.ok
        THEN Raised("Unexpected error in care plan generation", cs, ex.family)
        ELSE ParseCompletion(prescription, ex.content, cs, ex.family)

(***************************************************************************)
(* The backend's answers to one plan-generation request.                   *)
(***************************************************************************)
AnyBody == [shape |-> "other", completion |-> EmptyCompletion]

\* init_ok: BedrockCarePlanGenerator() was built; error: what invoke_model
\* raised ("none": it returned `body`)
GenerateAnswers ==
    [init_ok : {TRUE}, error : {"none"}, body : ResponseBodies]
    \cup [init_ok : {TRUE}, error : InvokeErrors, body : {AnyBody}]
    \cup [init_ok : {FALSE}, error : {"none"}, body : {AnyBody}]

\* model_id query parameter: absent (<<>>) or an identifier
GenerateRequests == [prescription : Prescriptions, model_id : ModelIds \cup {<<>>}]

\* POST /care-plan/generate (main.py): the response and the calls made
GenerateRoute(request, backend) ==
    LET effective_model_id ==
            IF request.model_id = <<>> THEN bedrock_model_id ELSE request.model_id
        r == GenerateCarePlan(request.prescription, effective_model_id, backend)
    IN  IF ~backend.init_ok
        THEN [status |-> 500, care_plan |-> NoPlan, model_used |-> <<>>,
              invoked |-> FALSE, calls |-> <<>>, extracted |-> "none",
              outcome |-> "raise"]
        ELSE IF r.outcome = "return"
        THEN [status |-> 200, care_plan |-> r.plan, model_used |-> effective_model_id,
              invoked |-> TRUE, calls |-> r.calls, extracted |-> r.extracted,
              outcome |-> r.outcome]
        ELSE [status |-> 500, care_plan |-> NoPlan, model_used |-> <<>>,
              invoked |-> TRUE, calls |-> r.calls, extracted |-> r.extracted,
              outcome |-> r.outcome]

(***************************************************************************)
(* BedrockCarePlanGenerator.list_available_models and GET /care-plan/models *)
(***************************************************************************)
ListedIds == {<<"anthropic.claude">>, <<"amazon.titan">>}

\* one entry of modelSummaries: has_id is FALSE when 'modelId' is absent,
\* text is TRUE when 'TEXT' is among its outputModalities
ModelSummaries == [modelId : ListedIds, has_id : BOOLEAN, text : BOOLEAN]

FallbackModels ==
    << <<"anthropic.claude", "sonnet-4-5-20250929-v1:0">>,
       <<"anthropic.claude", "3-5-sonnet-20241022-v2:0">>,
       <<"anthropic.claude", "3-sonnet-20240229-v1:0">>,
       <<"anthropic.claude", "3-haiku-20240307-v1:0">>,
       <<"amazon.titan", "text-express-v1">>,
       <<"amazon.nova", "micro-v1:0">> >>

RECURSIVE SuitableModels(_)
SuitableModels(summaries) ==
    IF summaries = <<>> THEN <<>>
    ELSE IF Head(summaries).text
         THEN <<Head(summaries).modelId>> \o SuitableModels(Tail(summaries))
         ELSE SuitableModels(Tail(summaries))

\* listing: [failed, summaries]; model['modelId'] raises KeyError for a TEXT
\* model without an id, which the handler treats like a failed call
ListAvailableModels(listing) ==
    IF listing.failed \/ \E i \in 1..Len(listing.summaries) :
                            listing.summaries[i].text /\ ~listing.summaries[i].has_id
    THEN FallbackModels
    ELSE SuitableModels(listing.summaries)

ModelsAnswers ==
    [init_ok : BOOLEAN, failed : {FALSE}, summaries : SeqsUpTo(ModelSummaries, MaxModels)]
    \cup [init_ok : {TRUE}, failed : {TRUE}, summaries : {<<>>}]

\* GET /care-plan/models (main.py)
ListBedrockModelsRoute(backend) ==
    LET available_models == ListAvailableModels(backend) IN
    IF ~backend.init_ok
    THEN [status |-> 500, available_models |-> <<>>, current_default |-> <<>>,
          total_models |-> 0]
    ELSE [status |-> 200, available_models |-> available_models,
          current_default |-> bedrock_model_id,
          total_models |-> Len(available_models)]

(***************************************************************************)
(* POST /care-plan/compare (care_plan_routes.py): one attempt per model    *)
(***************************************************************************)
\* settings.claude_35_sonnet_model_id, claude_37_sonnet_model_id,
\* claude_3_sonnet_model_id, nova_micro_model_id
claude_35_sonnet_model_id == <<"anthropic.claude", "3-5-sonnet-20241022-v2:0">>

claude_37_sonnet_model_id == <<"anthropic.claude", "3-7-sonnet-20250219-v1:0">>

claude_3_sonnet_model_id == <<"anthropic.claude", "3-sonnet-20240229-v1:0">>

nova_micro_model_id == <<"amazon.nova", "micro-v1:0">>

\* the attempts of the handler in program order: the key of the result and
\* the model asked
CompareModels ==
    << [key |-> "claude_4_5_sonnet", model_id |-> bedrock_model_id],
       [key |-> "claude_3_5_sonnet", model_id |-> claude_35_sonnet_model_id],
       [key |-> "claude_3_7_sonnet", model_id |-> claude_37_sonnet_model_id],
       [key |-> "claude_3_sonnet", model_id |-> claude_3_sonnet_model_id],
       [key |-> "nova_micro", model_id |-> nova_micro_model_id] >>

\* what the backend may answer to one attempt: a refusal, a lost connection,
\* or a reply in the claude or nova layout whose completion is a valid plan
\* or no JSON at all
CompareAnswers ==
    {b \in GenerateAnswers :
        /\ b.init_ok
        /\ \/ b.error \in {"AccessDeniedException", "ConnectionError"}
           \/ /\ b.error = "none"
              /\ b.body.shape \in {"claude", "nova"}
              /\ \/ b.body.completion.kind = "not_json"
                 \/ CarePlanValidates(b.body.completion) /\ b.body.completion.missing = {}}

\* one try / except Exception block of the handler
CompareAttempt(prescription, m, backend) ==
    LET r == GenerateCarePlan(prescription, m.model_id, backend) IN
    [key |-> m.key, success |-> r.outcome = "return", care_plan |-> r.plan,
     error |-> r.error, model_used |-> m.model_id, calls |-> r.calls]

RECURSIVE AttemptCalls(_, _)
AttemptCalls(results, n) ==
    IF n = 0 THEN <<>> ELSE AttemptCalls(results, n - 1) \o results[n].calls

\* the attempts made when a failed attempt ends the handler: every later
\* result is missing
CompareResultsAborting(prescription, backends) ==
    LET all == [i \in 1..Len(CompareModels) |->
                   CompareAttempt(prescription, CompareModels[i], backends[i])]
        failed == {i \in 1..Len(CompareModels) : ~all[i].success}
        last == IF failed = {} THEN Len(CompareModels)
                ELSE CHOOSE i \in failed : \A j \in failed : i <= j
    IN  [i \in 1..last |-> all[i]]

\* the results of all attempts, each made whatever the others gave
CompareResults(prescription, backends) ==
    [i \in 1..Len(CompareModels) |->
        CompareAttempt(prescription, CompareModels[i], backends[i])]

\* the handler: results is keyed by model, in insertion order
CompareCarePlans(prescription, backends) ==
    LET results == CompareResults(prescription, backends)
        successful_models == Cardinality({i \in DOMAIN results : results[i].success})
        overall_success == successful_models > 0
    IN  [status |-> IF overall_success THEN 200 ELSE 500,
         success |-> overall_success,
         successful_models |-> successful_models,
         total_models |-> Cardinality({results[i].key : i \in DOMAIN results}),
         results |-> [i \in DOMAIN results |->
                         [key |-> results[i].key, success |-> results[i].success,
                          care_plan |-> results[i].care_plan, error |-> results[i].error,
                          model_used |-> results[i].model_used]],
         calls |-> AttemptCalls(results, Len(results))]

(***************************************************************************)
(* POST /care-plan/demo (main.py): a fixed plan, built without the backend *)
(***************************************************************************)
\* demo_care_plan.dict(): each field of CarePlan with the number of items of
\* its list (1 for the two string fields)
DemoCarePlan ==
    [patient_summary |-> 1, care_goals |-> 4, medication_management |-> 3,
     lifestyle_recommendations |-> 3, monitoring_schedule |-> 2,
     warning_signs |-> 6, follow_up_recommendations |-> 2, generated_at |-> 1]

\* the handler: the status, the keys of the JSON body and its care_plan
GenerateDemoCarePlan ==
    [status |-> 200,
     keys |-> {"success", "message", "note", "care_plan", "sample_prescription",
               "bedrock_required"},
     care_plan |-> DemoCarePlan]

(***************************************************************************)
(* GET /health (main.py)                                                   *)
(***************************************************************************)
\* settings.app_name, settings.app_version
app_name == "AI Health Service"

app_version == "1.0.0"

\* the handler: the status and the JSON body
HealthCheck ==
    [status |-> 200,
     body |-> [status |-> "healthy", service |-> app_name, version |-> app_version]]

(***************************************************************************)
(* S3FileUploader (file_upload.py)                                         *)
(***************************************************************************)
Exts == {".pdf", ".PDF", ".txt"}

\* str.lower() on a file extension
Lower(ext) == IF ext = ".PDF" THEN ".pdf" ELSE ext

ContentTypes == {"application/pdf", "text/plain"}

Contents == {<<>>, <<37>>}

Files == [stem : {"scan"}, ext : Exts, content_type : ContentTypes, content : Contents]

Folders == {"uploads"}

UUIDs == {"1b9d6bcd", "bbfd45b2"}

s3_bucket_name == "health-bucket"

Buckets == {s3_bucket_name, "other-bucket"}

Keys == [folder : Folders, timestamp : 0..MaxClock, unique_id : UUIDs, ext : Exts]

\* generate_file_key: "{folder}/{timestamp}_{uuid4()[:8]}{extension}"; t is
\* the clock reading in seconds, u the first 8 characters of the uuid drawn
GenerateFileKey(file, folder, t, u) ==
    [folder |-> folder, timestamp |-> t, unique_id |-> u, ext |-> file.ext]

ValidatePdfFile(file) ==
    /\ file.content_type \in {"application/pdf"}
    /\ Lower(file.ext) = ".pdf"

PutAnswers == {"ok", "NoSuchBucket", "AccessDenied", "InternalError", "ConnectionError"}

S3ClientErrorCodes == {"NoSuchBucket", "AccessDenied", "InternalError"}

NoKey == [folder |-> "none", timestamp |-> 0, unique_id |-> "none", ext |-> "none"]

\* steps: what upload_file did, in order ("validate_pdf_file",
\* "generate_file_key", "read": await file.read(), "put_object")
UploadRaised(status, detail, key, cs, steps) ==
    [outcome |-> "raise", status |-> status, detail |-> detail, success |-> FALSE,
     file_key |-> key, file_size |-> 0, calls |-> cs, steps |-> steps]

\* the except ClientError handler (lines 146-164): an HTTPException raised
\* here leaves upload_file, the `except Exception` below it does not apply
S3ErrorResponseGeneric(error_code, bucket_name) ==
    [status |-> 500, detail |-> "An unexpected error occurred"]

S3ErrorResponse(error_code, bucket_name) ==
    IF error_code = "NoSuchBucket"
    THEN [status |-> 404, detail |-> "S3 bucket '" \o bucket_name \o "' not found"]
    ELSE IF error_code = "AccessDenied"
    THEN [status |-> 403, detail |-> "Access denied to S3 bucket"]
    ELSE [status |-> 500, detail |-> "Failed to upload file to S3"]

\* upload_file with the validation placed after the upload
UploadFileToValidatingLate(file, bucket_name, folder, validate_pdf, t, u, put) ==
    LET file_key == GenerateFileKey(file, folder, t, u)
        cs == << [api |-> "put_object", Bucket |-> bucket_name, Key |-> file_key,
                  Body |-> file.content] >>
        steps == <<"generate_file_key", "read", "put_object">>
                 \o (IF validate_pdf THEN <<"validate_pdf_file">> ELSE <<>>)
    IN  IF put # "ok" \/ (validate_pdf /\ ~ValidatePdfFile(file))
        THEN UploadRaised(500, "An unexpected error occurred", file_key, cs, steps)
        ELSE [outcome |-> "return", status |-> 200, detail |-> "File uploaded successfully",
              success |-> TRUE, file_key |-> file_key, file_size |-> Len(file.content),
              calls |-> cs, steps |-> steps]

\* upload_file that logs a failed put_object and carries on
UploadFileToOptimistic(file, bucket_name, folder, validate_pdf, t, u, put) ==
    LET file_key == GenerateFileKey(file, folder, t, u)
        cs == << [api |-> "put_object", Bucket |-> bucket_name, Key |-> file_key,
                  Body |-> file.content] >>
        checked == IF validate_pdf THEN <<"validate_pdf_file">> ELSE <<>>
    IN  IF validate_pdf /\ ~ValidatePdfFile(file)
        THEN UploadRaised(500, "An unexpected error occurred", NoKey, <<>>, checked)
        ELSE [outcome |-> "return", status |-> 200, detail |-> "File uploaded successfully",
              success |-> TRUE, file_key |-> file_key, file_size |-> Len(file.content),
              calls |-> cs,
              steps |-> checked \o <<"generate_file_key", "read", "put_object">>]

\* upload_file: t, u are the clock and uuid read by generate_file_key,
\* put is the storage service's answer to put_object
UploadFileTo(file, bucket_name, folder, validate_pdf, t, u, put) ==
    LET file_key == GenerateFileKey(file, folder, t, u)
        cs == << [api |-> "put_object", Bucket |-> bucket_name, Key |-> file_key,
                  Body |-> file.content] >>
        checked == IF validate_pdf THEN <<"validate_pdf_file">> ELSE <<>>
        steps == checked \o <<"generate_file_key", "read", "put_object">>
        mapped == S3ErrorResponse(put, bucket_name)
    IN  IF validate_pdf /\ ~ValidatePdfFile(file)
        \* HTTPException(400) is raised inside the try block and caught by
        \* `except Exception`, which raises HTTPException(500)
        THEN UploadRaised(500, "An unexpected error occurred", NoKey, <<>>, checked)
        ELSE IF put \in S3ClientErrorCodes
        THEN UploadRaised(mapped.status, mapped.detail, file_key, cs, steps)
        ELSE IF put # "ok"
        THEN UploadRaised(500, "An unexpected error occurred", file_key, cs, steps)
        ELSE [outcome |-> "return", status |-> 200, detail |-> "File uploaded successfully",
              success |-> TRUE, file_key |-> file_key, file_size |-> Len(file.content),
              calls |-> cs, steps |-> steps]

\* get_file_url and GET /file/{bucket_name}/{file_key}: presign is the
\* outcome of generate_presigned_url, which signs locally
PresignAnswers == {"ok", "ClientError", "OtherError"}

NoUrl == [Bucket |-> "none", Key |-> NoKey, ExpiresIn |-> 0]

GetFileUrlRoute(bucket_name, file_key, expiration, presign) ==
    IF presign = "ok"
    THEN [status |-> 200, success |-> TRUE,
          presigned_url |-> [Bucket |-> bucket_name, Key |-> file_key,
                             ExpiresIn |-> expiration],
          detail |-> "none"]
    ELSE IF presign = "ClientError"
    THEN [status |-> 500, success |-> FALSE, presigned_url |-> NoUrl,
          detail |-> "Failed to generate file access URL"]
    ELSE [status |-> 500, success |-> FALSE, presigned_url |-> NoUrl,
          detail |-> "Internal server error occurred while generating file URL"]

(***************************************************************************)
(* POST /upload/extract-medical-data (s3_routes.py): patient demographics  *)
(***************************************************************************)
InfoFields == {"name", "age", "gender", "weight"}

StructuredFields == {"age", "gender", "weight"}

Absent == "absent"

EmptyInfo == [f \in InfoFields |-> Absent]

\* The document as the handler sees it.
\*   json_keys: the top-level keys of a JSON document in iteration order
\*     ("patient": a key containing "patient" whose value is the dict
\*     `patient`; "vital": a key containing "vital" with a non-empty dict);
\*   patient: field -> value, Absent when the key is missing;
\*   phi: the PHI entities of entity recognition, in order;
\*   lines: for each line of the text the demographic branch it takes in
\*     the line loop and the value its regex captures ("other": none);
\*   full: field -> the value the full-text patterns capture, or Absent.
JsonKeyOrders == {<<>>, <<"patient">>, <<"vital", "patient">>, <<"patient", "vital">>}

PhiEntities == {[type |-> "NAME", value |-> "ner"], [type |-> "AGE", value |-> "ner"],
                [type |-> "AGE", value |-> "nodigits"]}

LineKinds == [field : InfoFields, value : {"line"}]
             \cup {[field |-> "other", value |-> "none"]}

NoPatient == [f \in StructuredFields |-> Absent]

JsonParts ==
    {[file_extension |-> "txt", json_keys |-> <<>>, patient |-> NoPatient],
     [file_extension |-> "json", json_keys |-> <<>>, patient |-> NoPatient]}
    \cup [file_extension : {"json"}, json_keys : JsonKeyOrders \ {<<>>},
          patient : [StructuredFields -> {Absent, "json"}]]

NerParts ==
    {[ner |-> FALSE, phi |-> <<>>]}
    \cup [ner : {TRUE}, phi : SeqsUpTo(PhiEntities, MaxEntities)]

Document(j, n, l, t) ==
    [file_extension |-> j.file_extension, json_keys |-> j.json_keys,
     patient |-> j.patient, ner |-> n.ner, phi |-> n.phi, lines |-> l, full |-> t]

LineSeqs == SeqsUpTo(LineKinds, MaxLines)

FullTexts == [StructuredFields -> {Absent, "full"}]

NoDocument ==
    [file_extension |-> "txt", json_keys |-> <<>>, patient |-> NoPatient,
     ner |-> FALSE, phi |-> <<>>, lines |-> <<>>, full |-> NoPatient]

\* lines 250-287: the loop over json_data.items(); the assignment to
\* vital_signs (not yet defined) raises NameError at the first "vital" key,
\* and the bare except ends the loop, keeping what was already stored
RECURSIVE FromJson(_, _, _)
FromJson(keys, patient, info) ==
    IF keys = <<>> \/ Head(keys) = "vital" THEN info
    ELSE FromJson(Tail(keys), patient,
                  [f \in InfoFields |->
                      IF f \in StructuredFields /\ patient[f] # Absent
                      THEN patient[f] ELSE info[f]])

\* lines 324-342: PHI entities fill name and age only when still missing
RECURSIVE FromPhi(_, _)
FromPhi(phi, info) ==
    IF phi = <<>> THEN info
    ELSE LET e == Head(phi)
             f == IF e.type = "NAME" THEN "name" ELSE "age"
         IN  FromPhi(Tail(phi),
                     IF info[f] = Absent /\ e.value # "nodigits"
                     THEN [info EXCEPT ![f] = e.value] ELSE info)

\* lines 352-425: the line loop assigns patient_info[field] unconditionally
RECURSIVE FromLines(_, _)
FromLines(lines, info) ==
    IF lines = <<>> THEN info
    ELSE FromLines(Tail(lines),
                   IF Head(lines).field \in InfoFields
                   THEN [info EXCEPT ![Head(lines).field] = Head(lines).value]
                   ELSE info)

\* lines 476-530: the full-text patterns run only for a missing field
FromFullText(full, info) ==
    [f \in InfoFields |->
        IF f \in StructuredFields /\ info[f] = Absent /\ full[f] # Absent
        THEN full[f] ELSE info[f]]

ExtractRequests == [file_url : {"", "not-s3", "s3"}]

\* get_object failed, or was never called
FailedDownload == [download_ok |-> FALSE, doc |-> NoDocument]

Downloaded(doc) == [download_ok |-> TRUE, doc |-> doc]

\* the handler; `structured` is patient_info before the regex parsing
ExtractMedicalData(request, backend) ==
    LET doc == backend.doc
        json == IF doc.file_extension = "json"
                THEN FromJson(doc.json_keys, doc.patient, EmptyInfo) ELSE EmptyInfo
        structured == IF doc.ner THEN FromPhi(doc.phi, json) ELSE json
        parsed == FromFullText(doc.full, FromLines(doc.lines, structured))
    IN  IF request.file_url # "s3" \/ ~backend.download_ok
        THEN [status |-> 400, structured |-> EmptyInfo, patient_info |-> EmptyInfo]
        ELSE [status |-> 200, structured |-> structured, patient_info |-> parsed]

(***************************************************************************)
(* AWSTextExtractor (text_extraction.py)                                   *)
(***************************************************************************)
\* A text is a sequence of runs of characters: n characters of white space
\* ("space", a newline included), of one-byte characters ("ascii") or of
\* characters that take three bytes in UTF-8 ("wide").  "" is <<>>.
Run(kind, n) == [kind |-> kind, n |-> n]

NL == <<Run("space", 1)>>

\* str.strip()
RECURSIVE LStrip(_)
LStrip(text) ==
    IF text # <<>> /\ Head(text).kind = "space" THEN LStrip(Tail(text)) ELSE text

RECURSIVE RStrip(_)
RStrip(text) ==
    IF text # <<>> /\ text[Len(text)].kind = "space"
    THEN RStrip(SubSeq(text, 1, Len(text) - 1)) ELSE text

Strip(text) == RStrip(LStrip(text))

\* The bytes of a document: what they are ("empty": no bytes, "garbage":
\* bytes no parser reads, else the format) and the text they hold.
DocTexts == {<<>>, <<Run("ascii", 1)>>, <<Run("space", 1), Run("ascii", 1)>>}

EmptyDoc == [kind |-> "empty", text |-> <<>>]

Docs ==
    {EmptyDoc, [kind |-> "garbage", text |-> <<>>]}
    \cup [kind : {"pdf", "docx", "json", "txt"}, text : DocTexts]

\* the file argument: an UploadFile (a stream, read from its position), the
\* bytes themselves, or the path of a readable file
FileArgs == [kind : {"UploadFile", "bytes", "path"}, doc : Docs]

\* the reply of detect_document_text: an error, or blocks
BlockTexts == {<<Run("ascii", 1)>>, <<Run("space", 1)>>}

Blocks == [BlockType : {"LINE", "WORD"}, Text : BlockTexts]

OcrErrors == {"UnsupportedDocumentException", "ConnectionError"}

NoBlocks == <<>>

OcrAnswers ==
    [error : OcrErrors, blocks : {NoBlocks}]
    \cup [error : {"none"}, blocks : SeqsUpTo(Blocks, MaxBlocks)]

\* lines 166-169: the text of the LINE blocks, a newline after each
RECURSIVE LinesOf(_)
LinesOf(blocks) ==
    IF blocks = <<>> THEN <<>>
    ELSE (IF Head(blocks).BlockType = "LINE" THEN Head(blocks).Text \o NL ELSE <<>>)
         \o LinesOf(Tail(blocks))

\* PyPDF2.PdfReader(BytesIO(bytes)) and the loop over its pages: ok is FALSE
\* when the reader raises
PdfReaderText(doc) ==
    IF doc.kind = "pdf" THEN [ok |-> TRUE, text |-> Strip(doc.text \o NL)]
    ELSE [ok |-> FALSE, text |-> <<>>]

\* _extract_pdf_fallback: rest is what is left to read of an UploadFile
ExtractPdfFallback(file, rest) ==
    LET given == IF file.kind = "UploadFile" THEN rest ELSE file.doc
        parsed == PdfReaderText(given)
    IN  [text |-> IF parsed.ok THEN parsed.text ELSE <<>>, given |-> given]

\* _extract_from_pdf: file.read() takes the whole stream of an UploadFile,
\* so nothing is left for a second read
ExtractFromPdf(file, ocr) ==
    LET cs == <<[api |-> "detect_document_text", Bytes |-> file.doc]>>
        fb == ExtractPdfFallback(file, EmptyDoc)
    IN  IF ocr.error = "none"
        THEN [text |-> Strip(LinesOf(ocr.blocks)), raised |-> FALSE,
              fallback_ran |-> FALSE, fallback_given |-> EmptyDoc, calls |-> cs]
        ELSE [text |-> fb.text, raised |-> FALSE,
              fallback_ran |-> TRUE, fallback_given |-> fb.given, calls |-> cs]

\* _extract_from_word: the paragraphs, a newline after each
ExtractFromWord(file) ==
    IF file.doc.kind = "docx" THEN Strip(file.doc.text \o NL) ELSE <<>>

\* _extract_from_json: json.dumps(json.loads(...)); '' when loading fails
ExtractFromJson(file) ==
    IF file.doc.kind = "json" /\ Strip(file.doc.text) # <<>>
    THEN Strip(file.doc.text) ELSE <<>>

\* _extract_from_text: the bytes decoded as UTF-8; '' when decoding fails
ExtractFromText(file) ==
    IF file.doc.kind \in {"txt", "json"} THEN file.doc.text ELSE <<>>

FileTypes == {"pdf", "PDF", "docx", "json", "txt", "csv"}

\* str.lower() on a file type
LowerType(file_type) == IF file_type = "PDF" THEN "pdf" ELSE file_type

\* _extract_text: raises ValueError for an unsupported type
ExtractText(file, file_type, ocr) ==
    LET t == LowerType(file_type)
        pdf == ExtractFromPdf(file, ocr)
    IN  IF t = "pdf" THEN [raised |-> FALSE, text |-> pdf.text, calls |-> pdf.calls]
        ELSE IF t \in {"docx", "doc"}
        THEN [raised |-> FALSE, text |-> ExtractFromWord(file), calls |-> <<>>]
        ELSE IF t = "json"
        THEN [raised |-> FALSE, text |-> ExtractFromJson(file), calls |-> <<>>]
        ELSE IF t = "txt"
        THEN [raised |-> FALSE, text |-> ExtractFromText(file), calls |-> <<>>]
        ELSE [raised |-> TRUE, text |-> <<>>, calls |-> <<>>]

\* len(text) and len(text.encode('utf-8'))
RECURSIVE TextLen(_)
TextLen(text) == IF text = <<>> THEN 0 ELSE Head(text).n + TextLen(Tail(text))

BytesPerChar(kind) == IF kind = "wide" THEN 3 ELSE 1

RECURSIVE ByteLen(_)
ByteLen(text) ==
    IF text = <<>> THEN 0
    ELSE Head(text).n * BytesPerChar(Head(text).kind) + ByteLen(Tail(text))

\* text[:k]
RECURSIVE Take(_, _)
Take(text, k) ==
    IF text = <<>> \/ k <= 0 THEN <<>>
    ELSE IF Head(text).n <= k
    THEN <<Head(text)>> \o Take(Tail(text), k - Head(text).n)
    ELSE <<Run(Head(text).kind, k)>>

max_length == 20000

\* lines 275-278: the text sent to the entity-recognition service
TruncateForNer(text) ==
    IF ByteLen(text) > max_length THEN Take(text, max_length) ELSE text

\* the replies of detect_entities_v2 and detect_phi: an error or entities
MedicalEntities == {[Category |-> "MEDICATION", Type |-> "GENERIC_NAME"]}

PhiKinds == {[Category |-> "PROTECTED_HEALTH_INFORMATION", Type |-> "NAME"]}

NerErrors == {"TextSizeLimitExceededException", "ConnectionError"}

NoNerReply == [error |-> "none", Entities |-> <<>>]

\* (the reply of detect_phi is only looked at when detect_entities_v2 answered)
NerAnswers ==
    [entities : [error : NerErrors, Entities : {<<>>}], phi : {NoNerReply}]
    \cup [entities : [error : {"none"}, Entities : SeqsUpTo(MedicalEntities, MaxNerEntities)],
          phi : [error : NerErrors, Entities : {<<>>}]
                \cup [error : {"none"}, Entities : SeqsUpTo(PhiKinds, MaxNerEntities)]]

NoNerAnswer == [entities |-> NoNerReply, phi |-> NoNerReply]

NerFailed(cs) ==
    [error |-> TRUE, medical_entities |-> <<>>, phi_entities |-> <<>>,
     total_medical_entities |-> 0, total_phi_entities |-> 0, calls |-> cs]

NoNer ==
    [error |-> FALSE, medical_entities |-> <<>>, phi_entities |-> <<>>,
     total_medical_entities |-> 0, total_phi_entities |-> 0, calls |-> <<>>]

\* _perform_ner, were the entities of the first call kept when the second
\* call fails
PerformNerPartial(text, ner) ==
    LET sent == TruncateForNer(text)
        first == [api |-> "detect_entities_v2", Text |-> sent]
        second == [api |-> "detect_phi", Text |-> sent]
    IN  IF ner.entities.error # "none" THEN NerFailed(<<first>>)
        ELSE IF ner.phi.error # "none"
        THEN [NerFailed(<<first, second>>) EXCEPT
                  !.medical_entities = ner.entities.Entities]
        ELSE [error |-> FALSE,
              medical_entities |-> ner.entities.Entities,
              phi_entities |-> ner.phi.Entities,
              total_medical_entities |-> Len(ner.entities.Entities),
              total_phi_entities |-> Len(ner.phi.Entities),
              calls |-> <<first, second>>]

\* _perform_ner: every statement is inside the try; both except clauses
\* return the same record
PerformNer(text, ner) ==
    LET sent == TruncateForNer(text)
        first == [api |-> "detect_entities_v2", Text |-> sent]
        second == [api |-> "detect_phi", Text |-> sent]
    IN  IF ner.entities.error # "none" THEN NerFailed(<<first>>)
        ELSE IF ner.phi.error # "none" THEN NerFailed(<<first, second>>)
        ELSE [error |-> FALSE,
              medical_entities |-> ner.entities.Entities,
              phi_entities |-> ner.phi.Entities,
              total_medical_entities |-> Len(ner.entities.Entities),
              total_phi_entities |-> Len(ner.phi.Entities),
              calls |-> <<first, second>>]

\* line 123: `if include_ner and extracted_text`
NerWantedAlways(include_ner, extracted_text) == include_ner

NerWanted(include_ner, extracted_text) == include_ner /\ extracted_text # <<>>

\* extract_and_analyze: keys are the keys of the result dictionary
ExtractAndAnalyze(file, file_type, include_ner, ocr, ner) ==
    LET ex == ExtractText(file, file_type, ocr)
        wanted == NerWanted(include_ner, ex.text)
        ner_results == IF wanted THEN PerformNer(ex.text, ner) ELSE NoNer
    IN  IF ex.raised
        THEN [raised |-> TRUE, keys |-> {}, extracted_text |-> <<>>, text_length |-> 0,
              ner_analysis |-> NoNer, calls |-> <<>>]
        ELSE [raised |-> FALSE,
              keys |-> {"extracted_text", "file_type", "text_length", "extraction_method"}
                       \cup (IF wanted THEN {"ner_analysis"} ELSE {}),
              extracted_text |-> ex.text, text_length |-> TextLen(ex.text),
              ner_analysis |-> [f \in DOMAIN NoNer \ {"calls"} |-> ner_results[f]],
              calls |-> ex.calls \o ner_results.calls]

(***************************************************************************)
(* POST /extract/text-only (text_extraction_routes.py)                     *)
(***************************************************************************)
\* The uploaded file: ext is the end of its name ("missing": no filename,
\* ".bin": none of the known extensions), over_limit whether it has more
\* than 10 MB.
UploadExts == {"missing", ".PDF", ".txt", ".bin"}

UploadContentTypes == {"application/pdf", "application/json", "application/octet-stream"}

ExtractUploads ==
    [ext : UploadExts, content_type : UploadContentTypes, doc : Docs,
     over_limit : BOOLEAN]

\* get_file_type: the extension of the lower-cased name, then the content
\* type, then 'txt'
GetFileType(file) ==
    IF file.ext \in {".pdf", ".PDF"} THEN "pdf"
    ELSE IF file.ext \in {".docx", ".doc"} THEN "docx"
    ELSE IF file.ext = ".json" THEN "json"
    ELSE IF file.ext = ".txt" THEN "txt"
    ELSE IF file.content_type = "application/pdf" THEN "pdf"
    ELSE IF file.content_type = "application/msword" THEN "docx"
    ELSE IF file.content_type = "application/json" THEN "json"
    ELSE IF file.content_type = "text/plain" THEN "txt"
    ELSE "txt"

ExtractRouteFailed(status) ==
    [status |-> status, keys |-> {}, extracted_text |-> <<>>, calls |-> <<>>]

\* extract_text_only: the content is read once and passed on as bytes
ExtractTextOnly(file, ocr, ner) ==
    LET r == ExtractAndAnalyze([kind |-> "bytes", doc |-> file.doc],
                               GetFileType(file), FALSE, ocr, ner)
    IN  IF file.ext = "missing" THEN ExtractRouteFailed(400)
        ELSE IF file.over_limit THEN ExtractRouteFailed(413)
        ELSE IF r.raised THEN ExtractRouteFailed(500)
        ELSE [status |-> 200,
              keys |-> r.keys \cup {"filename", "file_size_bytes", "content_type"},
              extracted_text |-> r.extracted_text, calls |-> r.calls]

(***************************************************************************)
(* POST /extract/ner-only (text_extraction_routes.py) and the texts given  *)
(* to entity recognition                                                   *)
(***************************************************************************)
\* The lengths of a run: one character, the fewest three-byte characters
\* that pass the limit in bytes, and the limit itself; two runs make
\* max_length + 1 characters.
RunLengths == {1, max_length \div 3 + 1, max_length}

NerTexts == SeqsUpTo([kind : {"space", "ascii", "wide"}, n : RunLengths], MaxRuns)

\* line 231: the longest text the route passes on, in characters
ner_only_max_chars == 20000

\* the fields of the dictionary _perform_ner returns
NerAnalysis(r) == [f \in DOMAIN NoNer \ {"calls"} |-> r[f]]

NerRouteFailed(status) ==
    [status |-> status, keys |-> {}, text_length |-> 0,
     ner_analysis |-> NerAnalysis(NoNer), calls |-> <<>>]

\* analyze_ner_only: `not text or not text.strip()`, then len(text) > 20000
AnalyzeNerOnly(text, ner) ==
    LET r == PerformNer(text, ner)
    IN  IF text = <<>> \/ Strip(text) = <<>> THEN NerRouteFailed(400)
        ELSE IF TextLen(text) > ner_only_max_chars THEN NerRouteFailed(413)
        ELSE [status |-> 200, keys |-> {"text_length", "ner_analysis"},
              text_length |-> TextLen(text), ner_analysis |-> NerAnalysis(r),
              calls |-> r.calls]

(***************************************************************************)
(* Request validation.  The framework validates the inputs a route         *)
(* declares after it has built the route's dependencies and before it      *)
(* calls the handler: a failed validation is answered with 422.            *)
(***************************************************************************)
\* PatientInfo as it arrives in a JSON body: age is an integer ("int"), a
\* text that is no number ("text") or missing; gender a string or missing
PatientInfoBodies ==
    {[present |-> FALSE, age |-> Absent, gender |-> Absent]}
    \cup [present : {TRUE}, age : {"int", "text", Absent}, gender : {"str", Absent}]

\* a JSON body sent to POST /care-plan/generate; {} has every key missing
PrescriptionBodies ==
    [patient_info : PatientInfoBodies, diagnosis : Diagnoses \cup {Absent},
     has_prescriptions : {TRUE}, nmeds : 0..MaxMeds]
    \cup [patient_info : PatientInfoBodies, diagnosis : Diagnoses \cup {Absent},
          has_prescriptions : {FALSE}, nmeds : {0}]

\* PatientInfo(**data) succeeds: age: int and gender: str are required
PatientInfoValidates(p) == p.present /\ p.age = "int" /\ p.gender = "str"

\* DoctorPrescription(**body) succeeds: patient_info, diagnosis and
\* prescriptions are required
DoctorPrescriptionValidatesLax(body) ==
    /\ body.patient_info.present
    /\ body.diagnosis # Absent
    /\ body.has_prescriptions

DoctorPrescriptionValidates(body) ==
    /\ PatientInfoValidates(body.patient_info)
    /\ body.diagnosis # Absent
    /\ body.has_prescriptions

\* the DoctorPrescription the handler receives
ParsedPrescription(body) == [diagnosis |-> body.diagnosis, nmeds |-> body.nmeds]

GenerateBodyRequests == [body : PrescriptionBodies, model_id : ModelIds \cup {<<>>}]

\* the answers that matter to a request the handler never sees
DependencyAnswers == [init_ok : BOOLEAN, error : {"none"}, body : {AnyBody}]

\* POST /care-plan/generate from the JSON body: get_care_plan_generator is
\* called first, then the body is validated, then the handler runs
GenerateEndpoint(request, backend) ==
    IF ~backend.init_ok
    THEN [status |-> 500, care_plan |-> NoPlan, model_used |-> <<>>,
          invoked |-> FALSE, calls |-> <<>>, extracted |-> "none",
          outcome |-> "raise"]
    ELSE IF ~DoctorPrescriptionValidates(request.body)
    THEN [status |-> 422, care_plan |-> NoPlan, model_used |-> <<>>,
          invoked |-> FALSE, calls |-> <<>>, extracted |-> "none",
          outcome |-> "rejected"]
    ELSE GenerateRoute([prescription |-> ParsedPrescription(request.body),
                        model_id |-> request.model_id], backend)

\* the request carries no file part
NoFile == [stem |-> "none", ext |-> "none", content_type |-> "none", content |-> <<>>]

\* POST /upload/pdf and /upload/file declare file: UploadFile = File(...);
\* a multipart form without the file part fails validation
\* (init_ok: get_s3_uploader built the S3FileUploader, which is done first)
UploadWithoutFile(init_ok) ==
    IF ~init_ok
    THEN UploadRaised(500, "AWS credentials not configured", NoKey, <<>>, <<>>)
    ELSE [outcome |-> "rejected", status |-> 422, detail |-> "Field required",
          success |-> FALSE, file_key |-> NoKey, file_size |-> 0, calls |-> <<>>,
          steps |-> <<>>]

(***************************************************************************)
(* The served application (app.main.app): its route table and dispatch.    *)
(***************************************************************************)
\* A path is its workflow prefix, the rest of it and whether it ends in
\* /{bucket_name}/{file_key}.
Route(method, prefix, name, params, endpoint) ==
    [method |-> method, prefix |-> prefix, name |-> name, params |-> params,
     endpoint |-> endpoint]

\* the routes registered on app, in the order of their decorators; main.py
\* includes no router
AppRoutes ==
    << Route("GET", "", "/", FALSE, "root"),
       Route("GET", "", "/health", FALSE, "health_check"),
       Route("POST", "/upload", "/pdf", FALSE, "upload_pdf"),
       Route("POST", "/upload", "/file", FALSE, "upload_file"),
       Route("GET", "/file", "", TRUE, "get_file_url"),
       Route("POST", "/care-plan", "/generate", FALSE, "generate_care_plan"),
       Route("POST", "/care-plan", "/sample", FALSE, "generate_sample_care_plan"),
       Route("GET", "/care-plan", "/models", FALSE, "list_bedrock_models"),
       Route("POST", "/care-plan", "/demo", FALSE, "generate_demo_care_plan"),
       Route("GET", "/file", "", TRUE, "get_file_url") >>

\* the routes declared on the routers of app/routes
RouterRoutes ==
    { Route("POST", "/upload", "/pdf", FALSE, "upload_pdf"),
      Route("POST", "/upload", "/file", FALSE, "upload_file"),
      Route("GET", "/upload", "/file", TRUE, "get_file_url"),
      Route("POST", "/upload", "/extract-medical-data", FALSE, "extract_medical_data"),
      Route("POST", "/care-plan", "/generate", FALSE, "generate_care_plan"),
      Route("POST", "/care-plan", "/sample", FALSE, "generate_sample_care_plan"),
      Route("POST", "/care-plan", "/claude-35-sonnet", FALSE, "generate_care_plan_claude_35"),
      Route("POST", "/care-plan", "/claude-35-sonnet/sample", FALSE, "generate_sample_care_plan_claude_35"),
      Route("POST", "/care-plan", "/claude-37-sonnet", FALSE, "generate_care_plan_claude_37"),
      Route("POST", "/care-plan", "/claude-37-sonnet/sample", FALSE, "generate_sample_care_plan_claude_37"),
      Route("POST", "/care-plan", "/claude-3-sonnet", FALSE, "generate_care_plan_claude_3"),
      Route("POST", "/care-plan", "/claude-3-sonnet/sample", FALSE, "generate_sample_care_plan_claude_3"),
      Route("POST", "/care-plan", "/nova-micro", FALSE, "generate_care_plan_nova_micro"),
      Route("POST", "/care-plan", "/nova-micro/sample", FALSE, "generate_sample_care_plan_nova_micro"),
      Route("POST", "/care-plan", "/compare", FALSE, "compare_care_plans"),
      Route("GET", "/care-plan", "/models", FALSE, "list_bedrock_models"),
      Route("POST", "/care-plan", "/demo", FALSE, "generate_demo_care_plan"),
      Route("GET", "/bedrock", "/access-check", FALSE, "check_bedrock_access"),
      Route("GET", "/bedrock", "/permissions", FALSE, "get_bedrock_permissions"),
      Route("POST", "/extract", "/text-and-ner", FALSE, "extract_text_and_ner"),
      Route("POST", "/extract", "/text-only", FALSE, "extract_text_only"),
      Route("POST", "/extract", "/ner-only", FALSE, "analyze_ner_only"),
      Route("GET", "/extract", "/supported-formats", FALSE, "get_supported_formats") }

Methods == {"GET", "POST", "PUT", "DELETE"}

\* the paths a client may ask for: those of every declared route, and one
\* that nothing declares
RequestPaths ==
    {[prefix |-> r.prefix, name |-> r.name, params |-> r.params] :
        r \in Range(AppRoutes) \cup RouterRoutes}
    \cup {[prefix |-> "", name |-> "/missing", params |-> FALSE]}

PathMatches(route, path) ==
    /\ route.prefix = path.prefix
    /\ route.name = path.name
    /\ route.params = path.params

\* the indices of the routes that match the path, and the path and method
PartialMatches(routes, path) ==
    {i \in 1..Len(routes) : PathMatches(routes[i], path)}

FullMatches(routes, method, path) ==
    {i \in PartialMatches(routes, path) : routes[i].method = method}

\* Router dispatch: the first route matching path and method handles the
\* request; a path that matches with another method gives 405, none 404
Dispatch(routes, method, path) ==
    LET full == FullMatches(routes, method, path)
        partial == PartialMatches(routes, path)
    IN  IF full # {}
        THEN [status |-> 200, matching |-> full,
              endpoint |-> routes[CHOOSE i \in full : \A j \in full : i <= j].endpoint]
        ELSE IF partial # {}
        THEN [status |-> 405, matching |-> full, endpoint |-> "none"]
        ELSE [status |-> 404, matching |-> full, endpoint |-> "none"]

(***************************************************************************)
(* The state machine.  op, req, answer, resp and calls describe the last   *)
(* request handled: the handler, its input, the backend's answers, its     *)
(* response and the backend calls it made.  objects is the content of the  *)
(* bucket (key -> the upload that wrote it), uploads the keys of the       *)
(* successful uploads in order, now the clock in seconds.  A handler runs  *)
(* when no request is in progress (op = "none"); Respond sends the         *)
(* response and drops the records of the request.                          *)
(***************************************************************************)
\* the value of req, answer and resp while no request is in progress
Nothing == [none |-> TRUE]

Init ==
    /\ op = "none"
    /\ req = Nothing
    /\ answer = Nothing
    /\ resp = Nothing
    /\ calls = <<>>
    /\ objects = <<>>
    /\ now = 0
    /\ uploads = <<>>

\* POST /care-plan/generate
PostCarePlanGenerate ==
    /\ op = "none"
    /\ \E request \in GenerateRequests, backend \in GenerateAnswers :
        LET r == GenerateRoute(request, backend) IN
        /\ op' = "care_plan_generate"
        /\ req' = request
        /\ answer' = backend
        /\ resp' = [status |-> r.status, care_plan |-> r.care_plan,
                    model_used |-> r.model_used, invoked |-> r.invoked,
                    extracted |-> r.extracted, outcome |-> r.outcome]
        /\ calls' = r.calls
        /\ UNCHANGED <<objects, now, uploads>>

\* GET /care-plan/models
GetCarePlanModels ==
    /\ op = "none"
    /\ \E backend \in ModelsAnswers :
        /\ op' = "care_plan_models"
        /\ req' = Nothing
        /\ answer' = backend
        /\ resp' = ListBedrockModelsRoute(backend)
        /\ calls' = IF backend.init_ok THEN <<[api |-> "list_foundation_models"]>> ELSE <<>>
        /\ UNCHANGED <<objects, now, uploads>>

\* POST /care-plan/compare
PostCarePlanCompare ==
    /\ op = "none"
    /\ \E prescription \in Prescriptions,
          backends \in [1..Len(CompareModels) -> CompareAnswers] :
        LET r == CompareCarePlans(prescription, backends) IN
        /\ op' = "care_plan_compare"
        /\ req' = [prescription |-> prescription]
        /\ answer' = [backends |-> backends]
        /\ resp' = [status |-> r.status, success |-> r.success,
                    successful_models |-> r.successful_models,
                    total_models |-> r.total_models, results |-> r.results]
        /\ calls' = r.calls
        /\ UNCHANGED <<objects, now, uploads>>

\* POST /care-plan/demo
PostCarePlanDemo ==
    /\ op = "none"
    /\ op' = "care_plan_demo"
    /\ req' = Nothing
    /\ answer' = Nothing
    /\ resp' = GenerateDemoCarePlan
    /\ calls' = <<>>
    /\ UNCHANGED <<objects, now, uploads>>

\* POST /upload/pdf (validate_pdf) and POST /upload/file
Upload(name, validate_pdf) ==
    /\ op = "none"
    /\ Len(uploads) < MaxUploads
    /\ \E file \in Files, folder \in Folders, u \in UUIDs, put \in PutAnswers :
        LET r == UploadFileTo(file, s3_bucket_name, folder, validate_pdf, now, u, put) IN
        /\ op' = name
        /\ req' = [file |-> file, folder |-> folder]
        /\ answer' = [uuid |-> u, put |-> put]
        /\ resp' = [status |-> r.status, success |-> r.success, detail |-> r.detail,
                    file_key |-> r.file_key, file_size |-> r.file_size,
                    steps |-> r.steps]
        /\ calls' = r.calls
        \* the service stores the object when put_object is called and accepted
        /\ IF r.calls # <<>> /\ put = "ok"
           THEN /\ uploads' = Append(uploads, r.calls[1].Key)
                /\ objects' = (r.calls[1].Key :> Len(uploads) + 1) @@ objects
           ELSE UNCHANGED <<uploads, objects>>
        /\ UNCHANGED now

PostUploadPdf == Upload("upload_pdf", TRUE)

PostUploadFile == Upload("upload_file", FALSE)

\* GET /file/{bucket_name}/{file_key}
GetFileUrl ==
    /\ op = "none"
    /\ \E bucket_name \in Buckets, file_key \in Keys, presign \in PresignAnswers :
        /\ op' = "get_file_url"
        /\ req' = [bucket_name |-> bucket_name, file_key |-> file_key]
        /\ answer' = [presign |-> presign]
        /\ resp' = GetFileUrlRoute(bucket_name, file_key, 3600, presign)
        /\ calls' = <<[api |-> "generate_presigned_url", Bucket |-> bucket_name,
                       Key |-> file_key]>>
        /\ UNCHANGED <<objects, now, uploads>>

\* GET /health
GetHealth ==
    /\ op = "none"
    /\ op' = "health"
    /\ req' = Nothing
    /\ answer' = Nothing
    /\ resp' = HealthCheck
    /\ calls' = <<>>
    /\ UNCHANGED <<objects, now, uploads>>

\* a second passes
Tick ==
    /\ now < MaxClock
    /\ now' = now + 1
    /\ UNCHANGED <<op, req, answer, resp, calls, objects, uploads>>

\* POST /upload/extract-medical-data
PostExtractMedicalData ==
    /\ op = "none"
    /\ \E request \in ExtractRequests, ok \in BOOLEAN,
          j \in JsonParts, n \in NerParts, l \in LineSeqs, t \in FullTexts :
        LET backend == IF ok /\ request.file_url = "s3"
                       THEN Downloaded(Document(j, n, l, t)) ELSE FailedDownload
        IN  /\ backend = FailedDownload => Document(j, n, l, t) = NoDocument
            /\ op' = "extract_medical_data"
            /\ req' = request
            /\ answer' = backend
            /\ resp' = ExtractMedicalData(request, backend)
            /\ calls' = <<>>
            /\ UNCHANGED <<objects, now, uploads>>

\* POST /care-plan/generate with any JSON body, well-formed or not
PostCarePlanGenerateBody ==
    /\ op = "none"
    /\ \E request \in GenerateBodyRequests :
        \E backend \in (IF DoctorPrescriptionValidates(request.body)
                        THEN GenerateAnswers ELSE DependencyAnswers) :
            LET r == GenerateEndpoint(request, backend) IN
            /\ op' = "care_plan_generate"
            /\ req' = request
            /\ answer' = backend
            /\ resp' = [status |-> r.status, care_plan |-> r.care_plan,
                        model_used |-> r.model_used, invoked |-> r.invoked,
                        extracted |-> r.extracted, outcome |-> r.outcome]
            /\ calls' = r.calls
            /\ UNCHANGED <<objects, now, uploads>>

\* POST /upload/pdf and POST /upload/file without a file part
PostUploadWithoutFile ==
    /\ op = "none"
    /\ \E name \in {"upload_pdf", "upload_file"}, folder \in Folders, init_ok \in BOOLEAN :
        LET r == UploadWithoutFile(init_ok) IN
        /\ op' = name
        /\ req' = [file |-> NoFile, folder |-> folder]
        /\ answer' = [init_ok |-> init_ok]
        /\ resp' = [status |-> r.status, success |-> r.success, detail |-> r.detail,
                    file_key |-> r.file_key, file_size |-> r.file_size,
                    steps |-> r.steps]
        /\ calls' = r.calls
        /\ UNCHANGED <<objects, now, uploads>>

\* any request arriving at the application: which handler gets it
RouteRequest ==
    /\ op = "none"
    /\ \E method \in Methods, path \in RequestPaths :
        /\ op' = "route"
        /\ req' = [method |-> method, path |-> path]
        /\ answer' = Nothing
        /\ resp' = Dispatch(AppRoutes, method, path)
        /\ calls' = <<>>
        /\ UNCHANGED <<objects, now, uploads>>

\* AWSTextExtractor._extract_from_pdf(file)
ExtractFromPdfCall ==
    /\ op = "none"
    /\ \E file \in FileArgs, ocr \in OcrAnswers :
        LET r == ExtractFromPdf(file, ocr) IN
        /\ op' = "extract_from_pdf"
        /\ req' = [file |-> file]
        /\ answer' = [ocr |-> ocr]
        /\ resp' = [text |-> r.text, raised |-> r.raised,
                    fallback_ran |-> r.fallback_ran,
                    fallback_given |-> r.fallback_given]
        /\ calls' = r.calls
        /\ UNCHANGED <<objects, now, uploads>>

\* AWSTextExtractor.extract_and_analyze(file, file_type, include_ner)
ExtractAndAnalyzeCall ==
    /\ op = "none"
    /\ \E file \in FileArgs, file_type \in FileTypes, include_ner \in BOOLEAN :
        \E ocr \in (IF LowerType(file_type) = "pdf" THEN OcrAnswers
                    ELSE {[error |-> "none", blocks |-> NoBlocks]}),
           ner \in (IF include_ner THEN NerAnswers ELSE {NoNerAnswer}) :
            LET r == ExtractAndAnalyze(file, file_type, include_ner, ocr, ner) IN
            /\ op' = "extract_and_analyze"
            /\ req' = [file |-> file, file_type |-> file_type, include_ner |-> include_ner]
            /\ answer' = [ocr |-> ocr, ner |-> ner]
            /\ resp' = [raised |-> r.raised, keys |-> r.keys,
                        extracted_text |-> r.extracted_text,
                        text_length |-> r.text_length, ner_analysis |-> r.ner_analysis]
            /\ calls' = r.calls
            /\ UNCHANGED <<objects, now, uploads>>

\* POST /extract/text-only
PostExtractTextOnly ==
    /\ op = "none"
    /\ \E file \in ExtractUploads :
        \E ocr \in (IF GetFileType(file) = "pdf" THEN OcrAnswers
                    ELSE {[error |-> "none", blocks |-> NoBlocks]}) :
            LET r == ExtractTextOnly(file, ocr, NoNerAnswer) IN
            /\ op' = "extract_text_only"
            /\ req' = [file |-> file]
            /\ answer' = [ocr |-> ocr, ner |-> NoNerAnswer]
            /\ resp' = [status |-> r.status, keys |-> r.keys,
                        extracted_text |-> r.extracted_text]
            /\ calls' = r.calls
            /\ UNCHANGED <<objects, now, uploads>>

\* AWSTextExtractor._perform_ner(text)
PerformNerCall ==
    /\ op = "none"
    /\ \E text \in NerTexts, ner \in NerAnswers :
        LET r == PerformNer(text, ner) IN
        /\ op' = "perform_ner"
        /\ req' = [text |-> text]
        /\ answer' = [ner |-> ner]
        /\ resp' = [ner_analysis |-> NerAnalysis(r)]
        /\ calls' = r.calls
        /\ UNCHANGED <<objects, now, uploads>>

\* POST /extract/ner-only
PostNerOnly ==
    /\ op = "none"
    /\ \E text \in NerTexts :
        \E ner \in (IF AnalyzeNerOnly(text, NoNerAnswer).status = 200
                    THEN NerAnswers ELSE {NoNerAnswer}) :
            LET r == AnalyzeNerOnly(text, ner) IN
            /\ op' = "ner_only"
            /\ req' = [text |-> text]
            /\ answer' = [ner |-> ner]
            /\ resp' = [status |-> r.status, keys |-> r.keys,
                        text_length |-> r.text_length,
                        ner_analysis |-> r.ner_analysis]
            /\ calls' = r.calls
            /\ UNCHANGED <<objects, now, uploads>>

\* the response leaves; nothing of the request is kept
Respond ==
    /\ op # "none"
    /\ op' = "none"
    /\ req' = Nothing
    /\ answer' = Nothing
    /\ resp' = Nothing
    /\ calls' = <<>>
    /\ UNCHANGED <<objects, now, uploads>>

\* the storage workflow, the only one with state that outlives a request,
\* and the health check
Next == PostUploadPdf \/ PostUploadFile \/ GetFileUrl \/ GetHealth \/ Tick \/ Respond

Spec == Init /\ [][Next]_vars

\* the plan-generation workflow
NextCarePlan ==
    PostCarePlanGenerate \/ GetCarePlanModels \/ PostCarePlanDemo \/ Respond

SpecCarePlan == Init /\ [][NextCarePlan]_vars

\* the extraction workflow
NextExtract == PostExtractMedicalData \/ Respond

SpecExtract == Init /\ [][NextExtract]_vars

\* the comparison of the five models
NextCompare == PostCarePlanCompare \/ Respond

SpecCompare == Init /\ [][NextCompare]_vars

\* the text extractor
NextTextExtractor ==
    \/ ExtractFromPdfCall \/ ExtractAndAnalyzeCall \/ PostExtractTextOnly
    \/ PerformNerCall \/ PostNerOnly \/ Respond

SpecTextExtractor == Init /\ [][NextTextExtractor]_vars

\* request validation in front of the handlers
NextValidation == PostCarePlanGenerateBody \/ PostUploadWithoutFile \/ Respond

SpecValidation == Init /\ [][NextValidation]_vars

\* the dispatch of requests to handlers
NextRouting == RouteRequest \/ Respond

SpecRouting == Init /\ [][NextRouting]_vars

(***************************************************************************)
(* Properties.                                                             *)
(***************************************************************************)
Generated == op = "care_plan_generate" /\ resp.invoked

\* the model id generate_care_plan was called with
EffectiveModelId == IF req.model_id = <<>> THEN bedrock_model_id ELSE req.model_id

\* the reply was read: the call succeeded, the body was JSON and held the
\* completion where the model's family keeps it
CompletionRead ==
    /\ Generated
    /\ answer.error = "none"
    /\ answer.body.shape # "notjson"
    /\ ExtractContent(EffectiveModelId, answer.body).ok

CompletionParses ==
    LET content == ExtractContent(EffectiveModelId, answer.body).content IN
    JsonLoads(content) /\ CarePlanValidates(content)

\* C1: whenever the completion cannot be parsed into the CarePlan record
\* shape (not JSON, or JSON that does not fit the record), generate_care_plan
\* returns the fallback plan built from the prescription instead of failing.
C1_FallbackOnEveryParseFailure ==
    (CompletionRead /\ ~CompletionParses)
        => /\ resp.outcome = "return"
           /\ resp.care_plan = CreateFallbackCarePlan(req.prescription)

\* the family table of the claim: the first marker, in this order, that the
\* identifier contains decides; none gives the default shape
FamilyOrder == << <<"anthropic.claude", "claude">>, <<"amazon.titan", "titan">>,
                  <<"amazon.nova", "nova">> >>

FirstMatch(model_id) ==
    LET hits == {i \in 1..Len(FamilyOrder) : Contains(model_id, FamilyOrder[i][1])} IN
    IF hits = {} THEN "default"
    ELSE FamilyOrder[CHOOSE i \in hits : \A j \in hits : i <= j][2]

\* C2: the request body and the reading of the reply use the same model
\* family, and that family is the first match in the order claude, titan,
\* nova, else default.
C2_RequestAndResponseSameFamily ==
    Generated =>
        /\ calls[1].body.family = FirstMatch(calls[1].modelId)
        /\ resp.extracted # "none" => resp.extracted = calls[1].body.family

\* an identifier carrying two family markers was used and its reply read
C2_Witness ==
    /\ Generated
    /\ resp.extracted = "claude"
    /\ Contains(calls[1].modelId, "amazon.titan")

\* C3: a patient_info field obtained from structured data or from entity
\* recognition is never overwritten by the regex parsing of the text.
C3_RegexNeverOverwrites ==
    (op = "extract_medical_data" /\ resp.status = 200)
        => \A f \in InfoFields :
              resp.structured[f] # Absent => resp.patient_info[f] = resp.structured[f]

\* C4: every invocation of generate_care_plan calls invoke_model exactly
\* once, for the model it was asked for, whether a plan is returned or the
\* call failed: no retry, no call to another model.
C4_SingleBackendCall ==
    Generated =>
        /\ Len(calls) = 1
        /\ calls[1].api = "invoke_model"
        /\ calls[1].modelId = EffectiveModelId

\* a failed call that was not followed by another one
C4_Witness ==
    /\ Generated
    /\ answer.error = "ThrottlingException"
    /\ Len(calls) = 1
    /\ resp.outcome = "raise"

ValidPdf(file) == file.content_type = "application/pdf" /\ Lower(file.ext) = ".pdf"

\* C6: POST /upload/pdf accepts a file only when its content type is
\* application/pdf and its name ends in .pdf (case-insensitively); any other
\* file is rejected with status 400 and detail 'Only PDF files are allowed'.
C6_NonPdfRejectedWith400 ==
    op = "upload_pdf" =>
        /\ resp.success => ValidPdf(req.file)
        /\ ~ValidPdf(req.file)
              => resp.status = 400 /\ resp.detail = "Only PDF files are allowed"

\* C7: GET /file/{bucket_name}/{file_key} answers success with a presigned
\* URL only when an object with that key is stored in that bucket.
C7_UrlOnlyForStoredObject ==
    (op = "get_file_url" /\ resp.success)
        => /\ req.bucket_name = s3_bucket_name
           /\ req.file_key \in DOMAIN objects

\* C8: any two uploads get different keys, so no upload overwrites the
\* object stored by another upload.
C8_KeysUnique ==
    /\ \A i, j \in 1..Len(uploads) : i # j => uploads[i] # uploads[j]
    /\ \A i \in 1..Len(uploads) : objects[uploads[i]] = i

BackendFailed == ~answer.init_ok \/ answer.error # "none"

\* C9: POST /care-plan/generate ends with status 200 and a care_plan, or
\* with status 400 or 500; when the backend fails the status is 500 and
\* there is no care_plan.
C9_GenerateStatuses ==
    op = "care_plan_generate" =>
        /\ \/ resp.status = 200 /\ resp.care_plan # NoPlan
           \/ resp.status \in {400, 500} /\ resp.care_plan = NoPlan
        /\ BackendFailed => resp.status = 500 /\ resp.care_plan = NoPlan

\* the model call was refused and the request failed with 500
C9_Witness ==
    /\ op = "care_plan_generate"
    /\ answer.error = "AccessDeniedException"
    /\ resp.status = 500

\* C10: GET /care-plan/models always responds 200 with a non-empty
\* available_models and a current_default; a failed listing gives the fixed
\* fallback list; total_models is the length of available_models.  (Stated
\* for the requests that reach the handler, its generator being built.)
C10_ModelsAlwaysListed ==
    (op = "care_plan_models" /\ answer.init_ok) =>
        /\ resp.status = 200
        /\ Len(resp.available_models) > 0
        /\ resp.current_default = bedrock_model_id
        /\ resp.total_models = Len(resp.available_models)
        /\ answer.failed => resp.available_models = FallbackModels

\* the body of a generate request is not a DoctorPrescription: a required
\* key is missing or the patient's age is no integer
BodyRejected ==
    \/ ~req.body.patient_info.present
    \/ req.body.patient_info.age # "int"
    \/ req.body.patient_info.gender # "str"
    \/ req.body.diagnosis = Absent
    \/ ~req.body.has_prescriptions

DemoRequiredFields ==
    {"patient_summary", "care_goals", "medication_management",
     "lifestyle_recommendations", "monitoring_schedule", "warning_signs",
     "emergency_contacts", "follow_up_plan"}

\* C12: POST /care-plan/demo responds 200 without a backend call; its body
\* has 'care_plan' and 'metadata', and care_plan has every field of
\* DemoRequiredFields, with care_goals, medication_management and
\* warning_signs non-empty.
C12_DemoResponseShape ==
    op = "care_plan_demo" =>
        /\ resp.status = 200
        /\ calls = <<>>
        /\ {"care_plan", "metadata"} \subseteq resp.keys
        /\ DemoRequiredFields \subseteq DOMAIN resp.care_plan
        /\ \A f \in {"care_goals", "medication_management", "warning_signs"} :
              f \in DOMAIN resp.care_plan => resp.care_plan[f] > 0

\* C13: GET /health always responds 200 with a body whose 'status' is
\* 'healthy' and which contains a 'timestamp' field, whatever the state of
\* the backend services.
C13_HealthHasTimestamp ==
    op = "health" =>
        /\ resp.status = 200
        /\ resp.body.status = "healthy"
        /\ "timestamp" \in DOMAIN resp.body

\* the three workflows and the path prefixes that lead to them
WorkflowPrefixes == {"/upload", "/care-plan", "/extract"}

\* the request asks for a route the repository declares for a workflow
DeclaredWorkflowRequest ==
    /\ req.path.prefix \in WorkflowPrefixes
    /\ \E r \in Range(AppRoutes) \cup RouterRoutes :
          r.method = req.method /\ PathMatches(r, req.path)

\* C14: the served application dispatches to all three workflows (file
\* storage under /upload, plan generation under /care-plan, extraction under
\* /extract), and every request is handled by exactly one registered handler:
\* a declared workflow request finds its handler, and no request matches two.
C14_OneHandlerPerRequest ==
    op = "route" =>
        /\ DeclaredWorkflowRequest => resp.status = 200
        /\ Cardinality(resp.matching) <= 1

\* the models of the comparison in the order of the claim: Claude 4.5,
\* Claude 3.5, Claude 3.7, Claude 3, Nova Micro
ComparedModelIds ==
    << bedrock_model_id, claude_35_sonnet_model_id, claude_37_sonnet_model_id,
       claude_3_sonnet_model_id, nova_micro_model_id >>

C16_SuccessOnlyAfterStored ==
    (op \in {"upload_pdf", "upload_file"} /\ req.file # NoFile) =>
        /\ resp.success =>
              /\ Len(calls) = 1
              /\ calls[1].api = "put_object"
              /\ answer.put = "ok"
              /\ calls[1].Key = resp.file_key
              /\ calls[1].Body = req.file.content
              /\ resp.file_size = Len(req.file.content)
              /\ resp.file_key \in DOMAIN objects
        /\ answer.put # "ok" => ~resp.success

\* a non-empty file was stored and reported
C16_Witness ==
    /\ op = "upload_file"
    /\ resp.success
    /\ resp.file_size = 1
    /\ calls[1].Body = <<37>>
    /\ resp.file_key \in DOMAIN objects

\* C17: a file rejected by PDF validation leaves storage untouched: with
\* validate_pdf true and validate_pdf_file false, the content is not read, no
\* key is generated, put_object is not called and the bucket keeps its objects.
C17_RejectedPdfLeavesStorage ==
    [][(op' = "upload_pdf" /\ op = "none" /\ ~ValidPdf(req'.file))
          => /\ resp'.steps = <<"validate_pdf_file">>
             /\ resp'.file_key = NoKey
             /\ calls' = <<>>
             /\ objects' = objects
             /\ uploads' = uploads]_vars

\* a non-PDF was rejected while the bucket held an object
C17_Witness ==
    /\ op = "upload_pdf"
    /\ ~ValidPdf(req.file)
    /\ answer.put = "ok"
    /\ ~resp.success
    /\ Len(uploads) = 1

\* C18: upload_file maps storage errors by code: NoSuchBucket gives 404 and
\* names the bucket, AccessDenied 403, any other client error 500 "Failed to
\* upload file to S3"; the caller receives this status, not the generic 500
\* of the catch-all handler.
C18_StorageErrorsMapped ==
    (op \in {"upload_pdf", "upload_file"} /\ req.file # NoFile /\ calls # <<>>) =>
        /\ answer.put = "NoSuchBucket"
              => /\ resp.status = 404
                 /\ resp.detail = "S3 bucket '" \o calls[1].Bucket \o "' not found"
        /\ answer.put = "AccessDenied" => resp.status = 403
        /\ answer.put = "InternalError"
              => resp.status = 500 /\ resp.detail = "Failed to upload file to S3"
        /\ answer.put # "ok" => resp.detail # "An unexpected error occurred"
                                \/ answer.put = "ConnectionError"

\* put_object was refused for a missing bucket and the caller got 404
C18_Witness ==
    /\ op = "upload_pdf"
    /\ answer.put = "NoSuchBucket"
    /\ resp.status = 404
    /\ resp.detail = "S3 bucket 'health-bucket' not found"

\* C19: PDF text extraction never fails with an error; when the OCR call
\* raises, the fallback parser is run on the same document bytes and its text
\* is returned (the result is what the parser reads in the bytes of the file),
\* or the empty string when the parser fails too; the fallback parser is not
\* run when OCR succeeded.
C19_PdfFallbackOnSameBytes ==
    op = "extract_from_pdf" =>
        /\ ~resp.raised
        /\ answer.ocr.error # "none"
              => /\ resp.fallback_ran
                 /\ resp.text = IF PdfReaderText(req.file.doc).ok
                                THEN PdfReaderText(req.file.doc).text ELSE <<>>
        /\ answer.ocr.error = "none" => ~resp.fallback_ran

\* the entity-recognition service was called during the request
NerCalled == \E i \in 1..Len(calls) : calls[i].api \in {"detect_entities_v2", "detect_phi"}

\* C20: extract_and_analyze calls the entity-recognition service only when
\* include_ner is true and the extracted text is non-empty; otherwise the
\* service is not called and the result has no 'ner_analysis' key.
\* POST /extract/text-only never calls the service.
C20_NerOnlyWhenWanted ==
    /\ op = "extract_and_analyze" =>
          /\ NerCalled <=> (~resp.raised /\ req.include_ner /\ resp.extracted_text # <<>>)
          /\ "ner_analysis" \in resp.keys <=> NerCalled
    /\ op = "extract_text_only" =>
          /\ ~NerCalled
          /\ "ner_analysis" \notin resp.keys

\* entity recognition was asked for, but OCR found only white space
C20_Witness ==
    /\ op = "extract_and_analyze"
    /\ req.include_ner
    /\ answer.ocr.error = "none"
    /\ answer.ocr.blocks # <<>>
    /\ \E i \in 1..Len(answer.ocr.blocks) : answer.ocr.blocks[i].BlockType = "LINE"
    /\ resp.extracted_text = <<>>
    /\ ~NerCalled
    /\ Len(calls) = 1

\* the request ran _perform_ner and this is the record it returned
NerRan == op \in {"perform_ner", "ner_only", "extract_and_analyze"} /\ NerCalled

\* a call of the entity-recognition service failed during the request
NerServiceFailed ==
    \/ answer.ner.entities.error # "none"
    \/ answer.ner.phi.error # "none"

\* C21: a failure of the entity-recognition service degrades the result
\* instead of failing the request: when detect_entities_v2 or detect_phi
\* fails, _perform_ner returns a record with an error message, no medical
\* and no PHI entities and both totals 0 (entities of the first call are
\* dropped when the second fails), and the routes still answer; in every
\* returned record each total is the length of its list.
C21_NerFailureDegrades ==
    NerRan =>
        /\ NerServiceFailed <=> resp.ner_analysis.error
        /\ NerServiceFailed
              => /\ resp.ner_analysis.medical_entities = <<>>
                 /\ resp.ner_analysis.phi_entities = <<>>
                 /\ resp.ner_analysis.total_medical_entities = 0
                 /\ resp.ner_analysis.total_phi_entities = 0
        /\ resp.ner_analysis.total_medical_entities
              = Len(resp.ner_analysis.medical_entities)
        /\ resp.ner_analysis.total_phi_entities = Len(resp.ner_analysis.phi_entities)
        /\ op = "ner_only" => resp.status = 200
        /\ op = "extract_and_analyze" => ~resp.raised

\* detect_entities_v2 found an entity, then detect_phi failed: the route
\* answers 200 with an error record that no longer holds the entity
C21_Witness ==
    /\ op = "ner_only"
    /\ answer.ner.entities.error = "none"
    /\ answer.ner.entities.Entities # <<>>
    /\ answer.ner.phi.error # "none"
    /\ Len(calls) = 2
    /\ resp.status = 200
    /\ resp.ner_analysis.error
    /\ resp.ner_analysis.medical_entities = <<>>

\* the texts the request gave to the entity-recognition service
SentTexts == {calls[i].Text : i \in {j \in 1..Len(calls) : calls[j].api \in {"detect_entities_v2", "detect_phi"}}}

\* C22: the text given to detect_entities_v2 and detect_phi never has more
\* than 20,000 bytes in UTF-8, whatever the input text and also with
\* multi-byte characters, and a text within the limit is passed unchanged.
C22_SentTextWithinByteLimit ==
    op \in {"perform_ner", "ner_only"} =>
        \A sent \in SentTexts :
            /\ ByteLen(sent) <= max_length
            /\ ByteLen(req.text) <= max_length => sent = req.text

====
